---------------------------- MODULE Spec2Model ----------------------------
(***************************************************************************)
(* State-machine model of the Tine native pitch pipeline:                  *)
(*   - FloatRingBuffer (native/cpp/FloatRingBuffer.hpp): the lock-free     *)
(*     single-producer/single-consumer sample ring, one step per shared    *)
(*     memory access;                                                      *)
(*   - PitchDetector (android/app/src/main/cpp/PitchDetector.cpp): the     *)
(*     stream controller with its frame accumulator, one step per block    *)
(*     of a handler that another thread can observe.                       *)
(* Samples are identified by their position in the stream that carries     *)
(* them, so every copy, shift and drop of the code is visible in the data. *)
(***************************************************************************)
EXTENDS Integers, Sequences, FiniteSets, TLC

(***************************************************************************)
(* Bounds of the model.                                                    *)
(***************************************************************************)
\* largest capacityFrames handed to the FloatRingBuffer constructor
MaxCapacityArg ==
    3
\* largest frame count of one write() or read() call
MaxCount ==
    2
\* samples offered to write() over one behaviour
MaxOffered ==
    4

\* the smallest analysis frame start() accepts.  The code's minimum is 256
\* samples (PitchDetector.cpp:64); the model scales it down so that whole
\* frames can be enumerated.  Every frame length of the model is >= 4, so,
\* as in the code, the hop is at least 2 and always below the frame length.
MinFrames ==
    4
\* the step between the bufferSize arguments above the minimum
FrameSpread ==
    1
\* largest numFrames of one audio callback
MaxChunk ==
    6
\* samples fed to the audio callbacks of one session
MaxSamples ==
    9

Min(a, b) ==
    IF a < b THEN a ELSE b

Max(a, b) ==
    IF a > b THEN a ELSE b

(***************************************************************************)
(* std::size_t arithmetic.  The cursors of a behaviour stay far below the  *)
(* modulus, which only decides what a subtraction below zero yields: a     *)
(* value larger than every count of the model, as 2^64 - k is in the code. *)
(***************************************************************************)
SizeModulus ==
    1073741824

USub(a, b) ==
    (a - b) % SizeModulus

VARIABLES
    \* FloatRingBuffer members
    m_capacity, m_buffer, m_writeIndex, m_readIndex,
    \* producer context: position and locals of write()
    ppc, pw,
    \* consumer context: position and locals of read()
    cpc, cr,
    \* the value the last write() / read() returned
    wret, rret,
    \* history: samples offered to write() so far, samples accepted by
    \* completed writes, samples returned by completed reads
    offered, accepted, returned,
    \* history: the write cursor reset() moved the read cursor to when it
    \* last returned, -1 before the first reset()
    resetAt,
    \* the context evaluating available() and then freeSpace(): position
    \* and locals (the context, the write cursor loaded, the two values)
    qpc, q,
    \* a YinPitchDetector instance used on its own: its members, and the
    \* arguments and the returned result of its last processBuffer call,
    \* with whether its scratch buffers had been used before and the lag
    \* and probability its call of absoluteThreshold gave
    yin, ycall,
    \* the last noteNameFromMidi call: implementation, argument, value
    note,
    \* PitchDetector members
    m_stream, m_detector, m_accumulator, m_accumulatorSize,
    m_analysisFrameCount, m_hopFrameCount, m_threshold, m_running,
    \* the context calling start() and stop(), which m_stateMutex serialises:
    \* position, the call in progress or last returned, its return value
    lpc, lcall, lret,
    \* the context calling setThreshold(): position and the local `clamped`
    tpc, clamped,
    \* the audio context in onAudioReady(): position, the stream position
    \* its audioData argument points at, the locals framesRemaining and
    \* input (as the stream position input points at), and the PitchResult
    \* in hand
    apc, audioData, framesRemaining, input, result,
    \* history
    fed,               \* samples handed to callbacks since the last start
    calls,             \* processBuffer calls of the session: position, result
    sink,              \* results passed to emitPitchResult
    stopBegun,         \* stop() has taken m_running to false, no start since
    ubHit,             \* an access with undefined behaviour has happened
    pendingThreshold,  \* value of a setThreshold call made while Stopped
    setOverlap         \* a setThreshold call overlapped the start in progress

ringVars ==
    << m_capacity, m_buffer, m_writeIndex, m_readIndex, ppc, pw, cpc, cr,
       wret, rret, offered, accepted, returned >>

memberVars ==
    << m_stream, m_detector, m_accumulator, m_accumulatorSize,
       m_analysisFrameCount, m_hopFrameCount, m_threshold, m_running >>

lifeVars ==
    << lpc, lcall, lret >>

setVars ==
    << tpc, clamped >>

audioVars ==
    << apc, audioData, framesRemaining, input, result >>

histVars ==
    << fed, calls, sink, stopBegun, ubHit,
       pendingThreshold, setOverlap >>

ctlVars ==
    << memberVars, lifeVars, setVars, audioVars, histVars >>

\* what neither write(), read() nor the controller touches
queryVars ==
    << qpc, q >>

yinVars ==
    << yin, ycall, note >>

extVars ==
    << resetAt, queryVars, yinVars >>

vars ==
    << ringVars, ctlVars, extVars >>

(***************************************************************************)
(* FloatRingBuffer                                                         *)
(***************************************************************************)
RECURSIVE PowerOfTwoFrom(_, _)
PowerOfTwoFrom(v, value) ==
    IF v < value THEN PowerOfTwoFrom(2 * v, value) ELSE v

\* nextPowerOfTwo: 0 counts as 1, then the smallest power of two >= value
nextPowerOfTwo(value) ==
    LET val == IF value = 0 THEN 1 ELSE value
    IN  IF 1 >= val THEN 1 ELSE PowerOfTwoFrom(1, val)

\* (position & m_mask), m_mask = m_capacity - 1 with m_capacity a power of two
SlotIndex(position) ==
    position % m_capacity

NoWrite ==
    [data |-> << >>, frames |-> 0, localWrite |-> 0, localRead |-> 0,
     toWrite |-> 0, written |-> 0]

NoRead ==
    [frames |-> 0, localRead |-> 0, localWrite |-> 0, toRead |-> 0,
     read |-> 0, dst |-> << >>]

\* no evaluation of available() / freeSpace() in progress or done
NoQuery ==
    [context |-> "none", write |-> 0, available |-> 0, freeSpace |-> 0]

\* FloatRingBuffer(capacityFrames)
RingConstructed(capacityFrames) ==
    /\ m_capacity = nextPowerOfTwo(capacityFrames)
    /\ m_buffer = [i \in 0..(m_capacity - 1) |-> 0]
    /\ m_writeIndex = 0
    /\ m_readIndex = 0
    /\ ppc = "idle"
    /\ pw = NoWrite
    /\ cpc = "idle"
    /\ cr = NoRead
    /\ offered = 0
    /\ accepted = << >>
    /\ returned = << >>
    /\ wret = 0
    /\ rret = 0
    /\ resetAt = -1
    /\ qpc = "idle"
    /\ q = NoQuery

\* mutant: write() ignores the free space
ToWrite_Unbounded(frames, available) ==
    frames

\* const std::size_t toWrite = frames > available ? available : frames;
ToWrite(frames, available) ==
    IF frames > available THEN available ELSE frames

\* mutant: read() ignores the number of available samples
ToRead_Unbounded(frames, available) ==
    frames

\* const std::size_t toRead = frames > available ? available : frames;
ToRead(frames, available) ==
    IF frames > available THEN available ELSE frames

\* the free space write() computes from the cursors it loaded
FreeFor(localWrite, localRead) ==
    USub(m_capacity, USub(localWrite, localRead))

\* write(): `if (!data || frames == 0) return 0;`
WriteRejected ==
    /\ ppc = "idle"
    /\ \E isNull \in BOOLEAN, frames \in 0..MaxCount : isNull \/ frames = 0
    /\ wret' = 0
    /\ UNCHANGED << m_capacity, m_buffer, m_writeIndex, m_readIndex, ppc, pw,
                    cpc, cr, rret, offered, accepted, returned >>
    /\ UNCHANGED << ctlVars, extVars >>

\* write(): entry with data, and the relaxed load of the producer's own cursor
WriteBegin ==
    /\ ppc = "idle"
    /\ \E frames \in 1..MaxCount :
          /\ offered + frames <= MaxOffered
          /\ pw' = [data |-> [i \in 1..frames |-> offered + i],
                    frames |-> frames, localWrite |-> m_writeIndex,
                    localRead |-> 0, toWrite |-> 0, written |-> 0]
          /\ offered' = offered + frames
    /\ ppc' = "w_loadRead"
    /\ UNCHANGED << m_capacity, m_buffer, m_writeIndex, m_readIndex, cpc, cr,
                    wret, rret, accepted, returned >>
    /\ UNCHANGED << ctlVars, extVars >>

\* write(): the acquire load of m_readIndex, the free space and toWrite;
\* `if (toWrite == 0) return 0;`
WriteLoadRead ==
    /\ ppc = "w_loadRead"
    /\ LET available == FreeFor(pw.localWrite, m_readIndex)
           toWrite == ToWrite(pw.frames, available)
       IN  IF toWrite = 0
           THEN /\ ppc' = "idle"
                /\ pw' = NoWrite
                /\ wret' = 0
           ELSE /\ ppc' = "w_copy"
                /\ pw' = [pw EXCEPT !.localRead = m_readIndex,
                                    !.toWrite = toWrite]
                /\ UNCHANGED wret
    /\ UNCHANGED << m_capacity, m_buffer, m_writeIndex, m_readIndex, cpc, cr,
                    rret, offered, accepted, returned >>
    /\ UNCHANGED << ctlVars, extVars >>

\* write(): one iteration of `while (written < toWrite)`, one slot stored
WriteCopy ==
    /\ ppc = "w_copy"
    /\ pw.written < pw.toWrite
    /\ m_buffer' = [m_buffer EXCEPT
                       ![SlotIndex(pw.localWrite + pw.written)] =
                           pw.data[pw.written + 1]]
    /\ pw' = [pw EXCEPT !.written = pw.written + 1]
    /\ UNCHANGED << m_capacity, m_writeIndex, m_readIndex, ppc, cpc, cr, wret,
                    rret, offered, accepted, returned >>
    /\ UNCHANGED << ctlVars, extVars >>

\* write(): the release store of m_writeIndex and the return of `written`
WriteStore ==
    /\ ppc = "w_copy"
    /\ pw.written >= pw.toWrite
    /\ m_writeIndex' = pw.localWrite + pw.written
    /\ wret' = pw.written
    /\ accepted' = accepted \o SubSeq(pw.data, 1, pw.written)
    /\ ppc' = "idle"
    /\ pw' = NoWrite
    /\ UNCHANGED << m_capacity, m_buffer, m_readIndex, cpc, cr, rret, offered,
                    returned >>
    /\ UNCHANGED << ctlVars, extVars >>

\* read(): `if (!dst || frames == 0) return 0;`
ReadRejected ==
    /\ cpc = "idle"
    /\ \E isNull \in BOOLEAN, frames \in 0..MaxCount : isNull \/ frames = 0
    /\ rret' = 0
    /\ UNCHANGED << m_capacity, m_buffer, m_writeIndex, m_readIndex, ppc, pw,
                    cpc, cr, wret, offered, accepted, returned >>
    /\ UNCHANGED << ctlVars, extVars >>

\* read(): entry with a destination, and the relaxed load of m_readIndex
ReadBegin ==
    /\ cpc = "idle"
    /\ \E frames \in 1..MaxCount :
          cr' = [frames |-> frames, localRead |-> m_readIndex, localWrite |-> 0,
                 toRead |-> 0, read |-> 0, dst |-> << >>]
    /\ cpc' = "r_loadWrite"
    /\ UNCHANGED << m_capacity, m_buffer, m_writeIndex, m_readIndex, ppc, pw,
                    wret, rret, offered, accepted, returned >>
    /\ UNCHANGED << ctlVars, extVars >>

\* read(): the acquire load of m_writeIndex, available and toRead;
\* `if (toRead == 0) return 0;`
ReadLoadWrite ==
    /\ cpc = "r_loadWrite"
    /\ LET available == USub(m_writeIndex, cr.localRead)
           toRead == ToRead(cr.frames, available)
       IN  IF toRead = 0
           THEN /\ cpc' = "idle"
                /\ cr' = NoRead
                /\ rret' = 0
           ELSE /\ cpc' = "r_copy"
                /\ cr' = [cr EXCEPT !.localWrite = m_writeIndex,
                                    !.toRead = toRead]
                /\ UNCHANGED rret
    /\ UNCHANGED << m_capacity, m_buffer, m_writeIndex, m_readIndex, ppc, pw,
                    wret, offered, accepted, returned >>
    /\ UNCHANGED << ctlVars, extVars >>

\* read(): one iteration of `while (read < toRead)`, one slot copied out
ReadCopy ==
    /\ cpc = "r_copy"
    /\ cr.read < cr.toRead
    /\ cr' = [cr EXCEPT
                 !.dst = Append(cr.dst,
                                m_buffer[SlotIndex(cr.localRead + cr.read)]),
                 !.read = cr.read + 1]
    /\ UNCHANGED << m_capacity, m_buffer, m_writeIndex, m_readIndex, ppc, pw,
                    cpc, wret, rret, offered, accepted, returned >>
    /\ UNCHANGED << ctlVars, extVars >>

\* read(): the release store of m_readIndex and the return of `read`
ReadStore ==
    /\ cpc = "r_copy"
    /\ cr.read >= cr.toRead
    /\ m_readIndex' = cr.localRead + cr.read
    /\ rret' = cr.read
    /\ returned' = returned \o cr.dst
    /\ cpc' = "idle"
    /\ cr' = NoRead
    /\ UNCHANGED << m_capacity, m_buffer, m_writeIndex, ppc, pw, wret,
                    offered, accepted >>
    /\ UNCHANGED << ctlVars, extVars >>

\* reset(), called by the producer context between its writes: the relaxed
\* load of the producer's own cursor and the relaxed store of m_readIndex
Reset ==
    /\ ppc = "idle"
    /\ m_readIndex' = m_writeIndex
    /\ resetAt' = m_writeIndex
    /\ UNCHANGED << m_capacity, m_buffer, m_writeIndex, ppc, pw, cpc, cr,
                    wret, rret, offered, accepted, returned >>
    /\ UNCHANGED << ctlVars, queryVars, yinVars >>

\* the context is not inside a call of its own
Between(context) ==
    IF context = "producer" THEN ppc = "idle" ELSE cpc = "idle"

\* the context is not between the loads of its pair of queries
NotQuerying(context) ==
    qpc \in {"idle", "done"} \/ q.context # context

\* available(): localWrite = m_writeIndex.load(relaxed), called by the
\* producer or the consumer context between its own calls
AvailableLoadWrite ==
    /\ qpc \in {"idle", "done"}
    /\ \E context \in {"producer", "consumer"} :
          /\ Between(context)
          /\ q' = [NoQuery EXCEPT !.context = context,
                                  !.write = m_writeIndex]
    /\ qpc' = "available_read"
    /\ UNCHANGED << ringVars, ctlVars, resetAt, yinVars >>

\* available(): localRead = m_readIndex.load(relaxed);
\* return localWrite - localRead
AvailableLoadRead ==
    /\ qpc = "available_read"
    /\ q' = [q EXCEPT !.write = 0,
                      !.available = USub(q.write, m_readIndex)]
    /\ qpc' = "free_write"
    /\ UNCHANGED << ringVars, ctlVars, resetAt, yinVars >>

\* freeSpace(): localWrite = m_writeIndex.load(relaxed)
FreeSpaceLoadWrite ==
    /\ qpc = "free_write"
    /\ q' = [q EXCEPT !.write = m_writeIndex]
    /\ qpc' = "free_read"
    /\ UNCHANGED << ringVars, ctlVars, resetAt, yinVars >>

\* freeSpace(): localRead = m_readIndex.load(relaxed);
\* return m_capacity - (localWrite - localRead)
FreeSpaceLoadRead ==
    /\ qpc = "free_read"
    /\ q' = [q EXCEPT !.write = 0,
                      !.freeSpace =
                          USub(m_capacity, USub(q.write, m_readIndex))]
    /\ qpc' = "done"
    /\ UNCHANGED << ringVars, ctlVars, resetAt, yinVars >>

Query ==
    \/ AvailableLoadWrite
    \/ AvailableLoadRead
    \/ FreeSpaceLoadWrite
    \/ FreeSpaceLoadRead

\* the calls of the producer context
Producer ==
    /\ NotQuerying("producer")
    /\ \/ WriteRejected
       \/ WriteBegin
       \/ WriteLoadRead
       \/ WriteCopy
       \/ WriteStore
       \/ Reset

\* the calls of the consumer context
Consumer ==
    /\ NotQuerying("consumer")
    /\ \/ ReadRejected
       \/ ReadBegin
       \/ ReadLoadWrite
       \/ ReadCopy
       \/ ReadStore

QueryNext ==
    \/ Producer
    \/ Consumer
    \/ Query

RingWriteRead ==
    \/ WriteRejected
    \/ WriteBegin
    \/ WriteLoadRead
    \/ WriteCopy
    \/ WriteStore
    \/ ReadRejected
    \/ ReadBegin
    \/ ReadLoadWrite
    \/ ReadCopy
    \/ ReadStore

RingNext ==
    \/ RingWriteRead
    \/ Reset

(***************************************************************************)
(* PitchDetector (the stream controller and its frame accumulator)         *)
(*                                                                         *)
(* Thresholds are counted in thousandths (0.001 is 1, 0.999 is 999).  The  *)
(* sample at 0-based position p of the stream a session is fed is the      *)
(* number p + 1; 0 is the 0.0f the accumulator is filled with.  The        *)
(* estimator is the YinPitchDetector the controller owns: its result for   *)
(* a frame is kept as the pair (frame, threshold) it was computed from.    *)
(***************************************************************************)
kMinThreshold ==
    1

kMaxThreshold ==
    999

\* double m_threshold {0.15}
DefaultThreshold ==
    150

\* int32_t m_analysisFrameCount {2048}: eight times the minimum of 256
DefaultFrames ==
    8 * MinFrames

\* int32_t m_hopFrameCount {1024}
DefaultHop ==
    DefaultFrames \div 2

\* the double that is not a number, which a threshold argument can be;
\* every other threshold is a count of thousandths
NaN ==
    -1000

\* a < b on doubles: false when either side is not a number
Less(a, b) ==
    a # NaN /\ b # NaN /\ a < b

\* std::clamp(value, lo, hi), as the standard library computes it:
\* (value < lo) ? lo : (hi < value) ? hi : value
Clamp(value, lo, hi) ==
    IF Less(value, lo) THEN lo ELSE IF Less(hi, value) THEN hi ELSE value

BufferSizeArgs ==
    {MinFrames - 1, MinFrames + FrameSpread, MinFrames + 2 * FrameSpread}

ThresholdArgs ==
    {kMinThreshold - 1, 400, kMaxThreshold + 1, NaN}

NoDetector ==
    [live |-> FALSE, threshold |-> 0, bufferSize |-> 0]

\* YinPitchDetector(sampleRate, bufferSize, threshold): the threshold clamped
NewDetector(bufferSize, threshold) ==
    [live |-> TRUE, threshold |-> Clamp(threshold, kMinThreshold, kMaxThreshold),
     bufferSize |-> bufferSize]

\* a default-constructed PitchResult: isValid false, every field zero
EmptyResult ==
    [kind |-> "empty", frame |-> << >>, threshold |-> 0]

\* what an access with undefined behaviour may leave in a PitchResult
GarbageResult ==
    [kind |-> "garbage", frame |-> << >>, threshold |-> 0]

\* YinPitchDetector::processBuffer(samples, numSamples) on estimator det:
\* the default result when numSamples < m_bufferSize, otherwise the estimate
\* computed from the first m_bufferSize samples under det's threshold
processBuffer(det, samples, numSamples) ==
    IF numSamples < det.bufferSize
    THEN EmptyResult
    ELSE [kind |-> "estimate", frame |-> SubSeq(samples, 1, det.bufferSize),
          threshold |-> det.threshold]

NoCall ==
    [op |-> "none", threshold |-> 0, pre |-> << >>]

\* a call of start or stop that has gone through: its arguments and the
\* configuration it found are no longer kept
Completed(op) ==
    [op |-> op, threshold |-> 0, pre |-> << >>]

\* what the queries bufferSize() and threshold() report, with the hop and
\* the accumulator fill-count
Configuration ==
    << m_analysisFrameCount, m_hopFrameCount, m_threshold, m_accumulatorSize >>

\* PitchDetector(env, dispatcher): the member initialisers and
\* m_accumulator.resize(m_analysisFrameCount)
CtlInit ==
    /\ m_stream = "null"
    /\ m_detector = NoDetector
    /\ m_accumulator = [i \in 1..DefaultFrames |-> 0]
    /\ m_accumulatorSize = 0
    /\ m_analysisFrameCount = DefaultFrames
    /\ m_hopFrameCount = DefaultHop
    /\ m_threshold = DefaultThreshold
    /\ m_running = FALSE
    /\ lpc = "idle"
    /\ lcall = NoCall
    /\ lret = "none"
    /\ tpc = "idle"
    /\ clamped = 0
    /\ apc = "idle"
    /\ audioData = 0
    /\ framesRemaining = 0
    /\ input = 0
    /\ result = EmptyResult
    /\ fed = 0
    /\ calls = << >>
    /\ sink = << >>
    /\ stopBegun = FALSE
    /\ ubHit = FALSE
    /\ pendingThreshold = 0
    /\ setOverlap = FALSE

\* an onAudioReady call is past its m_running check and has not returned
CallbackInFlight ==
    apc # "idle"

\* the process has died of an access with undefined behaviour
Crashed ==
    apc = "crashed"

\* m_analysisFrameCount = std::max<int32_t>(256, bufferSize)
AnalysisFrameCount(bufferSize) ==
    Max(MinFrames, bufferSize)

\* m_hopFrameCount = std::max<int32_t>(m_analysisFrameCount / 2, 1)
HopFrameCount(analysisFrameCount) ==
    Max(analysisFrameCount \div 2, 1)

\* mutant: start() keeps the threshold a setThreshold call stored
StartThreshold_Kept(current, threshold) ==
    current

\* m_threshold = std::clamp(threshold, 0.001, 0.999)
StartThreshold(current, threshold) ==
    Clamp(threshold, kMinThreshold, kMaxThreshold)

\* mutant: start() does not look at m_running
AlreadyRunning_Ignored ==
    FALSE

\* start(): the test `m_running.load()`
AlreadyRunning ==
    m_running

\* start(): `if (m_running.load()) return true;` (the record of the call
\* keeps the threshold argument that was passed)
StartWhileRunning ==
    /\ lpc = "idle"
    /\ ~Crashed
    /\ AlreadyRunning
    /\ \E bufferSize \in BufferSizeArgs, threshold \in ThresholdArgs :
          lcall' = [op |-> "start", threshold |-> threshold, pre |-> << >>]
    /\ lret' = "true"
    /\ UNCHANGED << memberVars, lpc, setVars, audioVars, histVars, ringVars, extVars >>

\* start(): not running; the three configuration members are assigned.
\* The model follows the applications that call start() again only once
\* the data callback of the stream they had before has returned.
StartConfigure ==
    /\ lpc = "idle"
    /\ ~CallbackInFlight
    /\ ~AlreadyRunning
    /\ \E bufferSize \in BufferSizeArgs, threshold \in ThresholdArgs :
          /\ m_analysisFrameCount' = AnalysisFrameCount(bufferSize)
          /\ m_hopFrameCount' = HopFrameCount(m_analysisFrameCount')
          /\ m_threshold' = StartThreshold(m_threshold, threshold)
          /\ lcall' = [op |-> "start", threshold |-> threshold,
                       pre |-> Configuration]
    /\ lpc' = "start_open"
    /\ lret' = "none"
    /\ fed' = 0
    /\ calls' = << >>
    /\ sink' = << >>
    /\ stopBegun' = FALSE
    /\ setOverlap' = (tpc # "idle")
    /\ UNCHANGED << m_stream, m_detector, m_accumulator, m_accumulatorSize,
                    m_running, setVars, audioVars, ubHit, pendingThreshold,
                    ringVars, extVars >>

\* start(): builder.openStream(m_stream); on failure m_stream.reset() and
\* `return false`
StartOpen ==
    /\ lpc = "start_open"
    /\ \E opened \in BOOLEAN :
          IF opened
          THEN /\ m_stream' = "open"
               /\ lpc' = "start_make"
               /\ UNCHANGED << lret, pendingThreshold >>
          ELSE /\ m_stream' = "null"
               /\ lpc' = "idle"
               /\ lret' = "false"
               /\ pendingThreshold' = 0
    /\ UNCHANGED << m_detector, m_accumulator, m_accumulatorSize,
                    m_analysisFrameCount, m_hopFrameCount, m_threshold,
                    m_running, lcall, setVars, audioVars, fed, calls, sink,
                    stopBegun, ubHit, setOverlap, ringVars, extVars >>

\* start(): the estimator is constructed, the accumulator is refilled with
\* zeros and the fill-count is cleared
StartMake ==
    /\ lpc = "start_make"
    /\ m_detector' = NewDetector(m_analysisFrameCount, m_threshold)
    /\ m_accumulator' = [i \in 1..m_analysisFrameCount |-> 0]
    /\ m_accumulatorSize' = 0
    /\ lpc' = "start_request"
    /\ UNCHANGED << m_stream, m_analysisFrameCount, m_hopFrameCount,
                    m_threshold, m_running, lcall, lret, setVars, audioVars,
                    fed, calls, sink, stopBegun, ubHit, pendingThreshold,
                    setOverlap, ringVars, extVars >>

\* start(): m_stream->requestStart(); on failure the stream is closed and
\* released and start returns false
StartRequest ==
    /\ lpc = "start_request"
    /\ \E started \in BOOLEAN :
          IF started
          THEN /\ m_stream' = "started"
               /\ lpc' = "start_store"
               /\ UNCHANGED << lret, pendingThreshold >>
          ELSE /\ m_stream' = "null"
               /\ lpc' = "idle"
               /\ lret' = "false"
               /\ pendingThreshold' = 0
    /\ UNCHANGED << m_detector, m_accumulator, m_accumulatorSize,
                    m_analysisFrameCount, m_hopFrameCount, m_threshold,
                    m_running, lcall, setVars, audioVars, fed, calls, sink,
                    stopBegun, ubHit, setOverlap, ringVars, extVars >>

\* start(): m_running.store(true); return true
StartStore ==
    /\ lpc = "start_store"
    /\ m_running' = TRUE
    /\ lpc' = "idle"
    /\ lcall' = Completed("start")
    /\ lret' = "true"
    /\ pendingThreshold' = 0
    /\ UNCHANGED << m_stream, m_detector, m_accumulator, m_accumulatorSize,
                    m_analysisFrameCount, m_hopFrameCount, m_threshold,
                    setVars, audioVars, fed, calls, sink, stopBegun, ubHit,
                    setOverlap, ringVars, extVars >>

\* stop(): `if (!m_running.exchange(false)) return false;`
StopEnter ==
    /\ lpc = "idle"
    /\ ~Crashed
    /\ m_running' = FALSE
    /\ lcall' = Completed("stop")
    /\ IF m_running
       THEN /\ lpc' = "stop_close"
            /\ lret' = "none"
            /\ stopBegun' = TRUE
       ELSE /\ lpc' = "idle"
            /\ lret' = "false"
            /\ UNCHANGED stopBegun
    /\ UNCHANGED << m_stream, m_detector, m_accumulator, m_accumulatorSize,
                    m_analysisFrameCount, m_hopFrameCount, m_threshold,
                    setVars, audioVars, fed, calls, sink, ubHit,
                    pendingThreshold, setOverlap, ringVars, extVars >>

\* stop(): the stream, if held, is stopped, closed and released
StopClose ==
    /\ lpc = "stop_close"
    /\ m_stream' = "null"
    /\ lpc' = "stop_detector"
    /\ UNCHANGED << m_detector, m_accumulator, m_accumulatorSize,
                    m_analysisFrameCount, m_hopFrameCount, m_threshold,
                    m_running, lcall, lret, setVars, audioVars, histVars,
                    ringVars, extVars >>

\* stop(): m_detector.reset()
StopDetector ==
    /\ lpc = "stop_detector"
    /\ m_detector' = NoDetector
    /\ lpc' = "stop_size"
    /\ UNCHANGED << m_stream, m_accumulator, m_accumulatorSize,
                    m_analysisFrameCount, m_hopFrameCount, m_threshold,
                    m_running, lcall, lret, setVars, audioVars, fed, calls,
                    sink, stopBegun, ubHit, pendingThreshold, setOverlap,
                    ringVars, extVars >>

\* mutant: stop() leaves the fill-count as it is
StopFillCount_Kept(size) ==
    size

\* stop(): the fill-count assigned by `m_accumulatorSize = 0`
StopFillCount(size) ==
    0

\* stop(): m_accumulatorSize = 0; return true
StopSize ==
    /\ lpc = "stop_size"
    /\ m_accumulatorSize' = StopFillCount(m_accumulatorSize)
    /\ lpc' = "idle"
    /\ lret' = "true"
    /\ UNCHANGED << m_stream, m_detector, m_accumulator, m_analysisFrameCount,
                    m_hopFrameCount, m_threshold, m_running, lcall, setVars,
                    audioVars, fed, calls, sink, stopBegun, ubHit,
                    pendingThreshold, setOverlap, ringVars, extVars >>

\* setThreshold(): the value is clamped and stored in m_threshold
SetThresholdStore ==
    /\ tpc = "idle"
    /\ ~Crashed
    /\ \E threshold \in ThresholdArgs :
          /\ clamped' = Clamp(threshold, kMinThreshold, kMaxThreshold)
          /\ m_threshold' = clamped'
          /\ pendingThreshold' =
                IF ~m_running /\ lpc = "idle" THEN clamped'
                ELSE pendingThreshold
    /\ tpc' = "set_check"
    /\ setOverlap' = (setOverlap \/ lpc # "idle")
    /\ UNCHANGED << m_stream, m_detector, m_accumulator, m_accumulatorSize,
                    m_analysisFrameCount, m_hopFrameCount, m_running,
                    lifeVars, audioVars, fed, calls, sink, stopBegun, ubHit,
                    ringVars, extVars >>

\* setThreshold(): `if (m_detector)`
SetThresholdCheck ==
    /\ tpc = "set_check"
    /\ ~Crashed
    /\ tpc' = IF m_detector.live THEN "set_apply" ELSE "idle"
    /\ setOverlap' = (setOverlap \/ lpc # "idle")
    /\ UNCHANGED << memberVars, lifeVars, clamped, audioVars, fed, calls,
                    sink, stopBegun, ubHit, pendingThreshold, ringVars, extVars >>

\* setThreshold(): m_detector->setThreshold(clamped).  With the estimator
\* discarded since the check, the call goes through a null pointer.
SetThresholdApply ==
    /\ tpc = "set_apply"
    /\ ~Crashed
    /\ setOverlap' = (setOverlap \/ lpc # "idle")
    /\ IF m_detector.live
       THEN /\ m_detector' =
                  [m_detector EXCEPT
                      !.threshold = Clamp(clamped, kMinThreshold, kMaxThreshold)]
            /\ tpc' = "idle"
            /\ UNCHANGED << apc, ubHit >>
       ELSE /\ ubHit' = TRUE
            /\ UNCHANGED m_detector
            /\ \E dies \in BOOLEAN :
                  IF dies
                  THEN apc' = "crashed" /\ tpc' = "crashed"
                  ELSE apc' = apc /\ tpc' = "idle"
    /\ UNCHANGED << m_stream, m_accumulator, m_accumulatorSize,
                    m_analysisFrameCount, m_hopFrameCount, m_threshold,
                    m_running, lifeVars, clamped, audioData, framesRemaining,
                    input, result, fed, calls, sink, stopBegun,
                    pendingThreshold, ringVars, extVars >>

\* onAudioReady(): `if (!m_running.load()) return Stop;` after which the
\* stream delivers no further callback
AudioNotRunning ==
    /\ apc = "idle"
    /\ m_stream = "started"
    /\ ~m_running
    /\ m_stream' = "halted"
    /\ UNCHANGED << m_detector, m_accumulator, m_accumulatorSize,
                    m_analysisFrameCount, m_hopFrameCount, m_threshold,
                    m_running, lifeVars, setVars, audioVars, histVars,
                    ringVars, extVars >>

\* onAudioReady(): entry of a callback that finds the controller running,
\* with numFrames samples continuing the stream
AudioBegin ==
    /\ apc = "idle"
    /\ m_stream = "started"
    /\ m_running
    /\ \E numFrames \in 0..MaxChunk :
          /\ fed + numFrames <= MaxSamples
          /\ framesRemaining' = numFrames
          /\ fed' = fed + numFrames
    /\ audioData' = fed
    /\ input' = fed
    /\ apc' = "loop"
    /\ UNCHANGED << memberVars, lifeVars, setVars, result, calls, sink,
                    stopBegun, ubHit, pendingThreshold, setOverlap,
                    ringVars, extVars >>

\* const int32_t framesToCopy = std::min(space, framesRemaining)
FramesToCopy(space, remaining) ==
    Min(space, remaining)

\* std::memcpy(m_accumulator.data() + m_accumulatorSize, input, n floats):
\* the vector after the copy (stores past its end are not part of it)
CopyIn(accumulator, size, from, n) ==
    [i \in DOMAIN accumulator |->
        IF size < i /\ i <= size + n THEN from + (i - size)
        ELSE accumulator[i]]

\* mutant: the input pointer is not advanced past the copied samples
AdvanceInput_Stuck(from, n) ==
    from

\* input += framesToCopy
AdvanceInput(from, n) ==
    from + n

\* mutant: a frame is dispatched only once the fill-count exceeds its length
FrameReady_Strict(size, analysisFrameCount, detector) ==
    size > analysisFrameCount /\ detector.live

\* `m_accumulatorSize >= m_analysisFrameCount && m_detector`
FrameReady(size, analysisFrameCount, detector) ==
    size >= analysisFrameCount /\ detector.live

\* the frame handed to processBuffer: m_accumulator.data(), N samples (a
\* read past the end of the vector yields no sample of the stream)
FrameOf(accumulator, analysisFrameCount) ==
    [i \in 1..analysisFrameCount |->
        IF i \in DOMAIN accumulator THEN accumulator[i] ELSE 0]

\* std::memmove(data, data + hop, remaining floats) when hop < frame length
ShiftFrame(accumulator, analysisFrameCount, hopFrameCount) ==
    IF hopFrameCount < analysisFrameCount
    THEN [i \in DOMAIN accumulator |->
             IF i <= analysisFrameCount - hopFrameCount
                /\ i + hopFrameCount \in DOMAIN accumulator
             THEN accumulator[i + hopFrameCount]
             ELSE accumulator[i]]
    ELSE accumulator

\* mutant: the fill-count is cleared after every frame, the overlap lost
SizeAfterDispatch_Cleared(analysisFrameCount, hopFrameCount) ==
    0

\* m_accumulatorSize after a dispatch: remaining, or 0 when hop >= length
SizeAfterDispatch(analysisFrameCount, hopFrameCount) ==
    IF hopFrameCount < analysisFrameCount
    THEN analysisFrameCount - hopFrameCount
    ELSE 0

\* onAudioReady(): the loop test, and the copy of the next samples into the
\* free part of the accumulator; `return Continue` when none remains (the
\* locals input, framesRemaining and result end with the call)
AudioLoop ==
    /\ apc = "loop"
    /\ IF framesRemaining > 0
       THEN LET space == m_analysisFrameCount - m_accumulatorSize
                framesToCopy == FramesToCopy(space, framesRemaining)
            IN  /\ apc' = "check"
                /\ IF framesToCopy > 0
                   THEN /\ m_accumulator' = CopyIn(m_accumulator,
                                                   m_accumulatorSize, input,
                                                   framesToCopy)
                        /\ m_accumulatorSize' = m_accumulatorSize + framesToCopy
                        /\ input' = AdvanceInput(input, framesToCopy)
                        /\ framesRemaining' = framesRemaining - framesToCopy
                        /\ ubHit' = (ubHit \/ m_accumulatorSize + framesToCopy
                                                  > Len(m_accumulator))
                   ELSE UNCHANGED << m_accumulator, m_accumulatorSize, input,
                                     framesRemaining, ubHit >>
                /\ UNCHANGED << audioData, result >>
       ELSE /\ apc' = "idle"
            /\ audioData' = 0
            /\ input' = 0
            /\ result' = EmptyResult
            /\ UNCHANGED << m_accumulator, m_accumulatorSize, framesRemaining,
                            ubHit >>
    /\ UNCHANGED << m_stream, m_detector, m_analysisFrameCount,
                    m_hopFrameCount, m_threshold, m_running, lifeVars,
                    setVars, fed, calls, sink, stopBegun, pendingThreshold,
                    setOverlap, ringVars, extVars >>

\* onAudioReady(): the test for a complete frame; `break` and
\* `return Continue` otherwise
AudioCheck ==
    /\ apc = "check"
    /\ IF FrameReady(m_accumulatorSize, m_analysisFrameCount, m_detector)
       THEN /\ apc' = "process"
            /\ UNCHANGED << audioData, framesRemaining, input, result >>
       ELSE /\ apc' = "idle"
            /\ audioData' = 0
            /\ framesRemaining' = 0
            /\ input' = 0
            /\ result' = EmptyResult
    /\ UNCHANGED << memberVars, lifeVars, setVars, histVars, ringVars, extVars >>

\* onAudioReady(): m_detector->processBuffer(m_accumulator.data(), N).  With
\* the estimator discarded since the test, the call goes through a null
\* pointer: the process dies or carries on with an arbitrary result.
AudioProcess ==
    /\ apc = "process"
    /\ IF m_detector.live
       THEN /\ result' = processBuffer(m_detector,
                            FrameOf(m_accumulator, m_analysisFrameCount),
                            m_analysisFrameCount)
            /\ calls' = Append(calls, [position |-> input, result |-> result'])
            /\ apc' = "emit"
            /\ ubHit' = (ubHit \/ m_analysisFrameCount > Len(m_accumulator))
            /\ UNCHANGED tpc
       ELSE /\ ubHit' = TRUE
            /\ \E dies \in BOOLEAN :
                  IF dies
                  THEN /\ apc' = "crashed"
                       /\ tpc' = "crashed"
                       /\ UNCHANGED << result, calls >>
                  ELSE /\ apc' = "emit"
                       /\ result' = GarbageResult
                       /\ calls' = Append(calls, [position |-> input,
                                                  result |-> result'])
                       /\ UNCHANGED tpc
    /\ UNCHANGED << memberVars, lifeVars, clamped, audioData, framesRemaining,
                    input, fed, sink, stopBegun, pendingThreshold, setOverlap,
                    ringVars, extVars >>

\* mutant: the result is not handed on
emitPitchResult_Dropped(forwarded, pitchResult) ==
    forwarded

\* emitPitchResult(result): the result is handed to the dispatcher
emitPitchResult(forwarded, pitchResult) ==
    Append(forwarded, pitchResult)

\* onAudioReady(): emitPitchResult(result)
AudioEmit ==
    /\ apc = "emit"
    /\ sink' = emitPitchResult(sink, result)
    /\ apc' = "shift"
    /\ UNCHANGED << memberVars, lifeVars, setVars, audioData, framesRemaining,
                    input, result, fed, calls, stopBegun, ubHit,
                    pendingThreshold, setOverlap, ringVars, extVars >>

\* onAudioReady(): the trailing N - hop samples move to the front and the
\* fill-count becomes N - hop (0 when the hop is the frame length)
AudioShift ==
    /\ apc = "shift"
    /\ m_accumulator' = ShiftFrame(m_accumulator, m_analysisFrameCount,
                                   m_hopFrameCount)
    /\ m_accumulatorSize' = SizeAfterDispatch(m_analysisFrameCount,
                                              m_hopFrameCount)
    /\ apc' = "loop"
    /\ UNCHANGED << m_stream, m_detector, m_analysisFrameCount,
                    m_hopFrameCount, m_threshold, m_running, lifeVars,
                    setVars, audioData, framesRemaining, input, result,
                    histVars, ringVars, extVars >>

\* onErrorAfterClose(): the audio library has closed the stream after an
\* error and reports it; m_running.store(false)
OnErrorAfterClose ==
    /\ m_stream \in {"started", "halted"}
    /\ ~Crashed
    /\ m_stream' = "closed"
    /\ m_running' = FALSE
    /\ UNCHANGED << m_detector, m_accumulator, m_accumulatorSize,
                    m_analysisFrameCount, m_hopFrameCount, m_threshold,
                    lifeVars, setVars, audioVars, histVars, ringVars, extVars >>

\* the calls serialised by m_stateMutex
Lifecycle ==
    \/ StartWhileRunning
    \/ StartConfigure
    \/ StartOpen
    \/ StartMake
    \/ StartRequest
    \/ StartStore
    \/ StopEnter
    \/ StopClose
    \/ StopDetector
    \/ StopSize

\* the data callback of the stream
Audio ==
    \/ AudioNotRunning
    \/ AudioBegin
    \/ AudioLoop
    \/ AudioCheck
    \/ AudioProcess
    \/ AudioEmit
    \/ AudioShift

SetThreshold ==
    \/ SetThresholdStore
    \/ SetThresholdCheck
    \/ SetThresholdApply

AudioNext ==
    \/ Lifecycle
    \/ Audio
    \/ OnErrorAfterClose

ThresholdNext ==
    \/ Lifecycle
    \/ SetThreshold
    \/ OnErrorAfterClose

(***************************************************************************)
(* onAudioReady as a function of the accumulator and one chunk             *)
(***************************************************************************)
\* the accumulator start() leaves, and no estimator call made yet
Started ==
    [accumulator |-> [i \in 1..m_analysisFrameCount |-> 0], size |-> 0,
     calls |-> << >>]

RECURSIVE onAudioReady(_, _, _)
\* the loop of onAudioReady run to its return on the chunk of `remaining`
\* samples at stream position `from`, by the steps of AudioLoop, AudioCheck,
\* AudioProcess and AudioShift, under the configuration and estimator in place
onAudioReady(st, from, remaining) ==
    IF remaining <= 0
    THEN st
    ELSE LET space == m_analysisFrameCount - st.size
             framesToCopy == FramesToCopy(space, remaining)
             copied ==
                 IF framesToCopy > 0
                 THEN [st EXCEPT
                          !.accumulator = CopyIn(st.accumulator, st.size, from,
                                                 framesToCopy),
                          !.size = st.size + framesToCopy]
                 ELSE st
             next == IF framesToCopy > 0 THEN AdvanceInput(from, framesToCopy)
                     ELSE from
             left == IF framesToCopy > 0 THEN remaining - framesToCopy
                     ELSE remaining
         IN  IF FrameReady(copied.size, m_analysisFrameCount, m_detector)
             THEN onAudioReady(
                      [accumulator |-> ShiftFrame(copied.accumulator,
                                                  m_analysisFrameCount,
                                                  m_hopFrameCount),
                       size |-> SizeAfterDispatch(m_analysisFrameCount,
                                                  m_hopFrameCount),
                       calls |-> Append(copied.calls,
                                   [position |-> next,
                                    result |-> processBuffer(m_detector,
                                        FrameOf(copied.accumulator,
                                                m_analysisFrameCount),
                                        m_analysisFrameCount)])],
                      next, left)
             ELSE copied

\* the first `total` samples of the stream delivered by one callback
OneChunk(total) ==
    onAudioReady(Started, 0, total)

RECURSIVE Singly(_, _, _)
Singly(st, from, total) ==
    IF from >= total THEN st
    ELSE Singly(onAudioReady(st, from, 1), from + 1, total)

\* the same samples delivered by `total` callbacks of one sample each
OneAtATime(total) ==
    Singly(Started, 0, total)

(***************************************************************************)
(* YinPitchDetector (src/native/dsp and native/cpp)                        *)
(*                                                                         *)
(* Samples are small integers, so every sum of squared deltas is an exact  *)
(* integer, and a double computed from them by one division is kept as    *)
(* the fraction << numerator, denominator >> it rounds; two such fractions *)
(* of this size compare as their doubles do.  << 1, 0 >> is infinity.     *)
(* In a PitchResult, frequency is that fraction; midi, cents and noteName, *)
(* which lines 65-73 compute from frequency alone, are kept as the flag    *)
(* `pitched`: false stands for 0.0, 0.0 and the empty string.              *)
(***************************************************************************)
MaxFrameLength ==
    6

\* the largest rounded MIDI number noteNameFromMidi is called with
MaxMidi ==
    72

SampleValues ==
    {0, 1}

\* the sample rates and frame lengths an estimator is constructed with
YinConfigurations ==
    {<< 48000, 3 >>, << 48000, 4 >>, << 48000, MaxFrameLength >>,
     << 0, 4 >>}

YinThresholdArgs ==
    {kMinThreshold - 1, 500, kMaxThreshold + 1}

Implementations ==
    {"dsp", "native"}

Zero ==
    << 0, 1 >>

One ==
    << 1, 1 >>

\* std::numeric_limits<double>::infinity()
Infinity ==
    << 1, 0 >>

\* a < b on the doubles two fractions stand for
LessQ(a, b) ==
    a[1] * b[2] < b[1] * a[2]

\* a - b
SubQ(a, b) ==
    << a[1] * b[2] - b[1] * a[2], a[2] * b[2] >>

\* PitchResult{}
DefaultResult ==
    [isValid |-> FALSE, frequency |-> Zero, pitched |-> FALSE,
     probability |-> Zero]

\* YinPitchDetector(sampleRate, bufferSize, threshold); the native/cpp
\* implementation fills m_cumulative with 0.0, the dsp one with 1.0
YinConstructed(impl, sampleRate, bufferSize, threshold) ==
    [impl |-> impl,
     m_sampleRate |-> sampleRate,
     m_bufferSize |-> bufferSize,
     m_maxLag |-> bufferSize \div 2,
     m_threshold |-> Clamp(threshold, kMinThreshold, kMaxThreshold),
     m_difference |-> [tau \in 0..(bufferSize \div 2) |-> 0],
     m_cumulative |-> [tau \in 0..(bufferSize \div 2) |->
                          IF impl = "dsp" THEN One ELSE Zero],
     m_lastResult |-> DefaultResult]

\* the arguments of processBuffer: a null pointer, a frame of the
\* configured length, or one sample less
NullSamples ==
    [null |-> TRUE, data |-> << >>]

YinInputs(bufferSize) ==
    {NullSamples}
        \cup { [null |-> FALSE, data |-> data] :
                  data \in [1..bufferSize -> SampleValues] }
        \cup { [null |-> FALSE, data |-> [i \in 1..(bufferSize - 1) |-> value]] :
                  value \in SampleValues }

\* mutant: processBuffer goes on with a maximum lag below 2
LagTooSmall_Never(maxLag) ==
    FALSE

\* processBuffer: `m_maxLag < 2`
LagTooSmall(maxLag) ==
    maxLag < 2

\* processBuffer: samples == nullptr || numSamples < m_bufferSize ||
\* m_maxLag < 2 || m_sampleRate <= 0.0
Malformed(det, samples) ==
    \/ samples.null
    \/ Len(samples.data) < det.m_bufferSize
    \/ LagTooSmall(det.m_maxLag)
    \/ det.m_sampleRate <= 0

\* mutant: the sum for a lag goes on from the value stored for it
DifferenceStart_Carried(stored) ==
    stored

\* computeDifference: std::fill(..., 0.0) and `double sum = 0.0`
DifferenceStart(stored) ==
    0

\* computeDifference: the inner loop from index i on (0-based), for
\* i < m_bufferSize - tau
RECURSIVE SumOfSquares(_, _, _, _, _)
SumOfSquares(data, bufferSize, tau, i, sum) ==
    IF i < bufferSize - tau
    THEN SumOfSquares(data, bufferSize, tau, i + 1,
                      sum + (data[i + 1] - data[i + tau + 1])
                                * (data[i + 1] - data[i + tau + 1]))
    ELSE sum

computeDifference(det, data) ==
    [tau \in 0..det.m_maxLag |->
        IF tau = 0 THEN 0
        ELSE SumOfSquares(data, det.m_bufferSize, tau, 0,
                          DifferenceStart(det.m_difference[tau]))]

\* computeCumulativeMeanNormalized: runningSum after the step for tau
RECURSIVE RunningSum(_, _)
RunningSum(difference, tau) ==
    IF tau = 0 THEN 0
    ELSE RunningSum(difference, tau - 1) + difference[tau]

\* mutant: a zero running sum gives d' = 0
Degenerate_Zero ==
    Zero

\* computeCumulativeMeanNormalized: m_cumulative[tau] = 1.0 when the
\* running sum is 0.0
Degenerate ==
    One

computeCumulativeMeanNormalized(difference, maxLag) ==
    [tau \in 0..maxLag |->
        IF tau = 0 THEN One
        ELSE IF RunningSum(difference, tau) = 0 THEN Degenerate
        ELSE << difference[tau] * tau, RunningSum(difference, tau) >>]

\* m_cumulative[tau] < m_threshold, the threshold counted in thousandths
BelowThreshold(value, threshold) ==
    threshold # NaN /\ LessQ(value, << threshold, 1000 >>)

\* mutant: the search stays at the first lag below the threshold
StepsDown_Never(next, current) ==
    FALSE

\* mutant: the search climbs while the next value is larger
StepsDown_Up(next, current) ==
    LessQ(current, next)

\* absoluteThreshold: m_cumulative[tau + 1] < m_cumulative[tau]
StepsDown(next, current) ==
    LessQ(next, current)

\* absoluteThreshold: the while loop that advances tau to the local minimum
RECURSIVE Descend(_, _, _)
Descend(cumulative, size, tau) ==
    IF tau + 1 < size /\ StepsDown(cumulative[tau + 1], cumulative[tau])
    THEN Descend(cumulative, size, tau + 1)
    ELSE tau

\* mutant: a value equal to the minimum so far replaces the candidate
Improves_OrEqual(value, minValue) ==
    ~LessQ(minValue, value)

\* absoluteThreshold: m_cumulative[tau] < minValue
Improves(value, minValue) ==
    LessQ(value, minValue)

\* absoluteThreshold: the second loop, from tau on, with the minimum and
\* its candidate so far
RECURSIVE Smallest(_, _, _, _, _)
Smallest(cumulative, size, tau, minValue, candidate) ==
    IF tau < size
    THEN IF Improves(cumulative[tau], minValue)
         THEN Smallest(cumulative, size, tau + 1, cumulative[tau], tau)
         ELSE Smallest(cumulative, size, tau + 1, minValue, candidate)
    ELSE IF minValue # Infinity
         THEN [tau |-> candidate, probability |-> SubQ(One, minValue)]
         ELSE [tau |-> 0, probability |-> Zero]

\* absoluteThreshold: the first loop from tau on, then the second loop
RECURSIVE absoluteThreshold(_, _, _, _)
absoluteThreshold(cumulative, size, threshold, tau) ==
    IF tau < size
    THEN IF BelowThreshold(cumulative[tau], threshold)
         THEN [tau |-> Descend(cumulative, size, tau),
               probability |->
                   SubQ(One, cumulative[Descend(cumulative, size, tau)])]
         ELSE absoluteThreshold(cumulative, size, threshold, tau + 1)
    ELSE Smallest(cumulative, size, 2, Infinity, 0)

\* tau + 0.5 * (s0 - s2) / denominator with the three values over their
\* common denominator; n is the numerator of (s0 + s2) - 2 * s1 there
Vertex(tau, n, s0, s2) ==
    IF n > 0 THEN << 2 * tau * n + (s0 - s2), 2 * n >>
    ELSE << (s0 - s2) - 2 * tau * (0 - n), 2 * (0 - n) >>

\* parabolicInterpolation(tau, values): a denominator of these fractions
\* that is not 0 is far above the 1e-12 the native/cpp implementation
\* compares its magnitude with
parabolicInterpolation(tau, values, size) ==
    IF tau = 0 \/ tau >= size - 1 THEN << tau, 1 >>
    ELSE LET s0 == values[tau - 1][1] * values[tau][2] * values[tau + 1][2]
             s1 == values[tau][1] * values[tau - 1][2] * values[tau + 1][2]
             s2 == values[tau + 1][1] * values[tau - 1][2] * values[tau][2]
         IN  IF (s0 + s2) - 2 * s1 = 0 THEN << tau, 1 >>
             ELSE Vertex(tau, (s0 + s2) - 2 * s1, s0, s2)

\* processBuffer from `if (tau == 0)` on: found is what absoluteThreshold
\* gave
Estimate(det, cumulative, found) ==
    LET refinedTau ==
            IF found.tau > 1 /\ found.tau < det.m_maxLag
            THEN parabolicInterpolation(found.tau, cumulative,
                                        det.m_maxLag + 1)
            ELSE << found.tau, 1 >>
    IN  IF found.tau = 0 \/ ~LessQ(Zero, refinedTau) THEN DefaultResult
        ELSE [isValid |-> LessQ(Zero, found.probability),
              frequency |-> << det.m_sampleRate * refinedTau[2],
                               refinedTau[1] >>,
              pitched |-> TRUE,
              probability |-> IF LessQ(found.probability, Zero) THEN Zero
                              ELSE IF LessQ(One, found.probability) THEN One
                              ELSE found.probability]

\* the estimator after processBuffer(samples, numSamples); the value
\* returned is its m_lastResult
YinProcessBuffer(det, samples) ==
    IF Malformed(det, samples)
    THEN [det EXCEPT !.m_lastResult = DefaultResult]
    ELSE LET difference == computeDifference(det, samples.data)
             cumulative ==
                 computeCumulativeMeanNormalized(difference, det.m_maxLag)
         IN  [det EXCEPT
                !.m_difference = difference,
                !.m_cumulative = cumulative,
                !.m_lastResult =
                    Estimate(det, cumulative,
                             absoluteThreshold(cumulative, det.m_maxLag + 1,
                                               det.m_threshold, 2))]

\* absoluteThreshold was not called
NotSearched ==
    [tau |-> 0, probability |-> Zero]

NoYinCall ==
    [made |-> FALSE, reused |-> FALSE, samples |-> NullSamples,
     found |-> NotSearched, result |-> DefaultResult]

\* the scratch buffers hold the values of a frame processed earlier
ScratchUsed(det) ==
    \E tau \in 1..det.m_maxLag : det.m_difference[tau] # 0

\* processBuffer(samples, numSamples) on the estimator
ProcessBuffer ==
    /\ \E samples \in YinInputs(yin.m_bufferSize) :
          /\ yin' = YinProcessBuffer(yin, samples)
          /\ ycall' = [made |-> TRUE, reused |-> ScratchUsed(yin),
                       samples |-> samples,
                       found |-> IF Malformed(yin, samples) THEN NotSearched
                                 ELSE absoluteThreshold(
                                          yin'.m_cumulative, yin.m_maxLag + 1,
                                          yin.m_threshold, 2),
                       result |-> yin'.m_lastResult]
    /\ UNCHANGED << ringVars, ctlVars, resetAt, queryVars, note >>

\* YinPitchDetector::setThreshold(threshold)
YinSetThreshold ==
    /\ \E threshold \in YinThresholdArgs :
          yin' = [yin EXCEPT !.m_threshold =
                     Clamp(threshold, kMinThreshold, kMaxThreshold)]
    /\ ycall' = NoYinCall
    /\ UNCHANGED << ringVars, ctlVars, resetAt, queryVars, note >>

YinNext ==
    \/ ProcessBuffer
    \/ YinSetThreshold

\* a / b of C++ ints, which truncates toward zero
TruncDiv(a, b) ==
    IF a >= 0 THEN a \div b ELSE 0 - ((0 - a) \div b)

\* a % b of C++ ints, which has the sign of a
TruncRem(a, b) ==
    a - b * TruncDiv(a, b)

\* kNoteNames / NOTE_NAMES
kNoteNames ==
    << "C", "C#", "D", "D#", "E", "F", "F#", "G", "G#", "A", "A#", "B" >>

\* noteNameFromMidi(midi) for an integral midi, which lround leaves as it
\* is.  The dsp implementation writes the name and then the octave to the
\* string, here the pair of the two; the native/cpp one returns the name.
noteNameFromMidi(impl, roundedMidi) ==
    LET noteIndex == TruncRem(TruncRem(roundedMidi, 12) + 12, 12)
        octave == TruncDiv(roundedMidi, 12) - 1
    IN  IF impl = "dsp" THEN << kNoteNames[noteIndex + 1], octave >>
        ELSE << kNoteNames[TruncRem(noteIndex, 12) + 1] >>

NoNote ==
    [impl |-> "none", midi |-> 0, noteName |-> << >>]

NoteName ==
    /\ \E impl \in Implementations, roundedMidi \in (0 - MaxMidi)..MaxMidi :
          note' = [impl |-> impl, midi |-> roundedMidi,
                   noteName |-> noteNameFromMidi(impl, roundedMidi)]
    /\ UNCHANGED << ringVars, ctlVars, resetAt, queryVars, yin, ycall >>

\* no estimator is used on its own
YinUnused ==
    /\ yin = YinConstructed("dsp", 0, 0, DefaultThreshold)
    /\ ycall = NoYinCall
    /\ note = NoNote

(***************************************************************************)
(* Specifications                                                          *)
(***************************************************************************)
\* a ring of any capacity beside a controller nothing is called on
InitRing ==
    \E capacityFrames \in 0..MaxCapacityArg :
        RingConstructed(capacityFrames) /\ CtlInit /\ YinUnused

\* the ring with its producer (write, reset) and its consumer (read)
SpecRing ==
    InitRing /\ [][RingNext]_vars

\* the ring with a producer that only writes and its consumer
SpecRingWR ==
    InitRing /\ [][RingWriteRead]_vars

\* the ring with its two contexts, each of which also evaluates
\* available() and freeSpace() between its calls
SpecQuery ==
    InitRing /\ [][QueryNext]_vars

Init ==
    CtlInit /\ RingConstructed(0) /\ YinUnused

\* an estimator of either implementation, constructed with any of the
\* configurations and thresholds, beside a ring and a
\* controller nothing is called on
InitYin ==
    /\ CtlInit
    /\ RingConstructed(0)
    /\ \E impl \in Implementations, configuration \in YinConfigurations,
          threshold \in YinThresholdArgs :
          yin = YinConstructed(impl, configuration[1], configuration[2],
                               threshold)
    /\ ycall = NoYinCall
    /\ note = NoNote

\* the estimator with its processBuffer and setThreshold calls
SpecYin ==
    InitYin /\ [][YinNext]_vars

\* the calls of noteNameFromMidi
SpecNote ==
    Init /\ [][NoteName]_vars

\* the controller with its control context (start, stop), the stream's
\* data callback and the stream's error callback
SpecAudio ==
    Init /\ [][AudioNext]_vars

\* onAudioReady() past its m_running test: the steps of the audio thread
\* inside one callback
InCallback ==
    \/ AudioLoop
    \/ AudioCheck
    \/ AudioProcess
    \/ AudioEmit
    \/ AudioShift

\* SpecAudio with the audio thread scheduled: a callback that has begun
\* takes its next step
SpecAudioLive ==
    Init /\ [][AudioNext]_vars /\ WF_vars(InCallback)

\* the controller with its control context, a context calling
\* setThreshold and the stream's error callback
SpecThreshold ==
    Init /\ [][ThresholdNext]_vars

Next ==
    \/ AudioNext
    \/ ThresholdNext

\* the controller with every context
Spec ==
    Init /\ [][Next]_vars

(***************************************************************************)
(* Claims about FloatRingBuffer                                            *)
(***************************************************************************)

\* C2: in every reachable state, with the producer context calling write
\* and reset and the consumer context calling read, the distance
\* m_writeIndex - m_readIndex is in [0, m_capacity].
C2_CursorDistanceInRange ==
    /\ m_writeIndex - m_readIndex >= 0
    /\ m_writeIndex - m_readIndex <= m_capacity

\* the samples read() returns are a prefix of the samples write() accepted,
\* and the read cursor counts them
C3_ReturnedIsPrefix ==
    /\ Len(returned) <= Len(accepted)
    /\ returned = SubSeq(accepted, 1, Len(returned))
    /\ m_readIndex = Len(returned)

\* a step in which read() returns: it returns min(count, available) samples,
\* the oldest unread ones in the order write accepted them, and advances
\* the read cursor by that number
C3_ReadReturns ==
    /\ (cpc = "r_loadWrite" /\ cpc' = "idle") =>
          /\ Min(cr.frames, m_writeIndex - cr.localRead) = 0
          /\ rret' = 0
          /\ UNCHANGED << m_readIndex, returned >>
    /\ (cpc = "r_copy" /\ cpc' = "idle") =>
          LET n == Min(cr.frames, cr.localWrite - cr.localRead)
          IN  /\ rret' = n
              /\ returned' =
                    returned \o SubSeq(accepted, m_readIndex + 1, m_readIndex + n)
              /\ m_readIndex' = m_readIndex + n

\* C3: the ring is FIFO and never overwrites unread data: over every
\* interleaving of a producer calling write and a consumer calling read,
\* each read returns exactly min(count, available) samples, the oldest
\* unread ones in write order, advancing the read cursor by that number,
\* and all samples returned form a prefix of all samples accepted.
C3_Fifo ==
    []C3_ReturnedIsPrefix /\ [][C3_ReadReturns]_vars

\* C3 witness: a read has returned two samples from a ring that has wrapped
\* (more samples accepted and returned than the ring has slots)
C3_Witness ==
    /\ cpc = "idle"
    /\ rret = 2
    /\ Len(returned) > m_capacity
    /\ Len(accepted) > Len(returned)

\* a step of write(), as the contract of write states it
C4_WriteStep ==
    /\ (ppc = "w_loadRead" /\ ppc' = "idle") =>
          /\ Min(pw.frames, m_capacity - (pw.localWrite - m_readIndex)) = 0
          /\ wret' = 0
          /\ UNCHANGED << m_buffer, m_writeIndex, m_readIndex, accepted >>
    /\ (ppc = "w_copy" /\ pw'.written = pw.written + 1) =>
          /\ (pw.localWrite + pw.written) - m_capacity < m_readIndex
          /\ \A i \in DOMAIN m_buffer :
                i # SlotIndex(pw.localWrite + pw.written) =>
                    m_buffer'[i] = m_buffer[i]
          /\ UNCHANGED << m_writeIndex, m_readIndex >>
    /\ (ppc = "w_copy" /\ ppc' = "idle") =>
          LET n == Min(pw.frames, m_capacity - (pw.localWrite - pw.localRead))
          IN  /\ wret' = n
              /\ m_writeIndex' = m_writeIndex + n
              /\ accepted' = accepted \o SubSeq(pw.data, 1, n)
              /\ \A i \in 1..n :
                    m_buffer'[SlotIndex(m_writeIndex + i - 1)] = pw.data[i]
              /\ UNCHANGED m_readIndex

\* C4: write(samples, count) accepts exactly min(count, capacity -
\* (writeCursor - readCursor)) samples (the cursors as write loaded them),
\* the first that many of its input; it returns that number, advances the
\* write cursor by it, never stores to the read cursor or over an unread
\* slot, and a write that finds no free space returns 0 and changes nothing.
C4_WriteContract ==
    [][C4_WriteStep]_vars

\* C4 witness: a write was offered more than the free space, has stored the
\* part that fits into a wrapped ring and is about to return that count
C4_Witness ==
    /\ ppc = "w_copy"
    /\ pw.toWrite < pw.frames
    /\ pw.written = pw.toWrite
    /\ pw.localWrite + pw.written > m_capacity
    /\ m_readIndex > 0


\* C13: the values of available() and of the freeSpace() evaluated after
\* it by the same context add up to the capacity, whatever the other
\* context does meanwhile, and each of them is in [0, capacity].
C13_QueriesSumToCapacity ==
    /\ qpc \in {"free_write", "free_read", "done"}
          => q.available \in 0..m_capacity
    /\ qpc = "done"
          => /\ q.freeSpace \in 0..m_capacity
             /\ q.available + q.freeSpace = m_capacity

\* C14: once reset() has returned the ring is empty until the next write:
\* while the write cursor is where the last reset() found it, the read
\* cursor is at the write cursor (available() is 0 and read() returns 0
\* samples, so no sample written before the reset is returned any more).
C14_ResetDiscardsUnread ==
    (resetAt # -1 /\ m_writeIndex = resetAt)
        => m_readIndex = m_writeIndex

\* C23: a write in progress and a read in progress never touch the same
\* slot, and every sample a read has copied is the sample a completed
\* write stored at that position, below the write cursor the read observed.
C23_PublicationSafe ==
    /\ (ppc = "w_copy" /\ cpc = "r_copy")
          => \A i \in 0..(pw.toWrite - 1), k \in 0..(cr.toRead - 1) :
                SlotIndex(pw.localWrite + i) # SlotIndex(cr.localRead + k)
    /\ cpc = "r_copy"
          => /\ cr.localRead + cr.toRead <= cr.localWrite
             /\ cr.localWrite <= Len(accepted)
             /\ \A k \in 1..cr.read : cr.dst[k] = accepted[cr.localRead + k]

\* C24: no step of write, read or reset, in any interleaving of the
\* producer and the consumer context, moves the write cursor or the read
\* cursor to a smaller value.
C24_CursorsNeverDecrease ==
    [][ /\ m_writeIndex' >= m_writeIndex
        /\ m_readIndex' >= m_readIndex ]_vars

(***************************************************************************)
(* Claims about PitchDetector                                              *)
(***************************************************************************)
\* the controller is Running: start() has returned true, and neither
\* stop() nor the stream's error callback has ended the session since
Running ==
    m_running

\* the results of the estimator calls, in call order
ResultsOf(made) ==
    [k \in 1..Len(made) |-> made[k].result]

\* C1: once stop() has taken the controller out of Running (and so also once
\* it has returned), no result is forwarded to the sink, no estimator call
\* is made and no discarded estimator is used, whatever the in-flight
\* callback was doing when stop() began.
C1_StopSilencesCallback ==
    [][(stopBegun /\ stopBegun')
          => (sink' = sink /\ calls' = calls /\ ubHit' = ubHit)]_vars

\* C5: when start() has returned false, no stream and no estimator exist,
\* the controller is not running, and buffer size, hop, threshold and
\* fill-count are what they were before the call.
C5_FailedStartLeavesNothing ==
    (lpc = "idle" /\ lcall.op = "start" /\ lret = "false")
        => /\ m_stream = "null"
           /\ ~m_detector.live
           /\ ~m_running
           /\ Configuration = lcall.pre

\* C6: whatever chunks the callbacks of a session delivered its samples in,
\* the estimator calls made (stream position and frame of each, and the
\* result) are those of one callback delivering all the samples, which are
\* those of callbacks delivering one sample each; the accumulator is left
\* the same; and the results forwarded are the results of those calls.
C6_ChunkingIndependent ==
    (Running /\ apc = "idle")
        => /\ calls = OneChunk(fed).calls
           /\ calls = OneAtATime(fed).calls
           /\ m_accumulatorSize = OneChunk(fed).size
           /\ m_accumulatorSize = OneAtATime(fed).size
           /\ \A i \in 1..m_accumulatorSize :
                 /\ m_accumulator[i] = OneChunk(fed).accumulator[i]
                 /\ m_accumulator[i] = OneAtATime(fed).accumulator[i]
           /\ sink = ResultsOf(calls)

\* a session has been fed MaxSamples samples, which takes more than one
\* callback (MaxChunk < MaxSamples), and has dispatched several frames
C6_Witness ==
    /\ Running
    /\ apc = "idle"
    /\ fed = MaxSamples
    /\ Len(calls) >= 2

\* floor((T - N) / H) + 1 frames, none when T < N
FrameCount(total, frameLength, hop) ==
    IF total < frameLength THEN 0 ELSE (total - frameLength) \div hop + 1

\* C7: with T samples ingested since start, the frames dispatched number 0
\* when T < N and floor((T - N)/H) + 1 otherwise, and the k-th of them
\* (k = 0, 1, ...) is the stream's samples [k*H, k*H + N), dispatched when
\* exactly k*H + N samples had been consumed; this holds between callbacks
\* and inside a callback each time it is about to take more of its chunk.
C7_FramesByClosedForm ==
    (Running /\ apc \in {"idle", "loop"})
        => /\ Len(calls) = FrameCount(fed - framesRemaining,
                                      m_analysisFrameCount, m_hopFrameCount)
           /\ \A k \in 1..Len(calls) :
                 /\ calls[k].position
                       = (k - 1) * m_hopFrameCount + m_analysisFrameCount
                 /\ calls[k].result.kind = "estimate"
                 /\ calls[k].result.frame
                       = [i \in 1..m_analysisFrameCount |->
                             (k - 1) * m_hopFrameCount + i]

\* one callback has dispatched two frames out of its own chunk and is not
\* through with it
C7_Witness ==
    /\ Running
    /\ apc = "loop"
    /\ framesRemaining > 0
    /\ Cardinality({k \in 1..Len(calls) : calls[k].position > audioData}) >= 2

\* C8: the accumulator fill-count is within [0, analysisFrameCount] in
\* every reachable state (and is analysisFrameCount - hopFrameCount right
\* after a dispatch, which AudioShift assigns).
C8_FillCountInRange ==
    /\ 0 <= m_accumulatorSize
    /\ m_accumulatorSize <= m_analysisFrameCount

C20_ConfigurationInRange ==
    /\ m_analysisFrameCount >= MinFrames
    /\ m_hopFrameCount = Max(m_analysisFrameCount \div 2, 1)
    /\ m_hopFrameCount <= m_analysisFrameCount
    /\ m_threshold \in kMinThreshold..kMaxThreshold
    /\ m_detector.live
          => m_detector.threshold \in kMinThreshold..kMaxThreshold

\* C10 (as stated): the estimator a start() has just constructed runs with
\* the threshold of the setThreshold call made while Stopped before it.
C10_SetThresholdReachesNextStart ==
    (lpc = "start_request" /\ ~setOverlap /\ pendingThreshold # 0)
        => m_detector.threshold = pendingThreshold

\* C10 (amended): the estimator a start() has just constructed runs with
\* the clamped threshold argument of that start(), which also replaces the
\* value an earlier setThreshold call stored for threshold() to report.
C10_StartThresholdWins ==
    (lpc = "start_request" /\ ~setOverlap)
        => /\ m_detector.threshold
                 = Clamp(lcall.threshold, kMinThreshold, kMaxThreshold)
           /\ m_threshold = m_detector.threshold

\* a start() after a setThreshold call made while Stopped, with another
\* threshold as its argument
C10_Witness ==
    /\ lpc = "start_request"
    /\ ~setOverlap
    /\ pendingThreshold # 0
    /\ pendingThreshold # Clamp(lcall.threshold, kMinThreshold, kMaxThreshold)

\* C11: a stop() entered while Stopped returns false and leaves every member
\* as it was; a stop() entered while Running goes on to return true, and
\* at its return the stream is released, the estimator discarded, the
\* fill-count zero and the controller Stopped, so that a stop() following it
\* returns false.
C11_StopContract ==
    [][ /\ (/\ lpc = "idle"
            /\ lcall'.op = "stop"
            /\ << lcall, lret >>' # << lcall, lret >>
            /\ ~m_running)
           => (lpc' = "idle" /\ lret' = "false" /\ memberVars' = memberVars)
        /\ (/\ lpc = "idle"
            /\ lcall'.op = "stop"
            /\ << lcall, lret >>' # << lcall, lret >>
            /\ m_running)
           => (lpc' = "stop_close" /\ lret' = "none" /\ ~m_running')
        /\ (lpc = "stop_size" /\ lpc' = "idle")
           => /\ lret' = "true"
              /\ lcall'.op = "stop"
              /\ m_stream' = "null"
              /\ m_detector' = NoDetector
              /\ m_accumulatorSize' = 0
              /\ ~m_running' ]_vars

\* a stop() has returned false after a stop() that released a stream which
\* had delivered samples
C11_Witness ==
    /\ lpc = "idle"
    /\ lcall.op = "stop"
    /\ lret = "false"
    /\ stopBegun
    /\ fed > 0
    /\ m_stream = "null"
    /\ ~m_detector.live

\* C12: a start() made while Running returns true at once, whatever its
\* arguments, and changes no member.
C12_StartWhileRunningNoOp ==
    [][ (/\ lpc = "idle"
         /\ m_running
         /\ lcall'.op = "start"
         /\ << lcall, lret >>' # << lcall, lret >>)
        => (lpc' = "idle" /\ lret' = "true" /\ memberVars' = memberVars) ]_vars

\* a start() with a threshold out of range has returned while a stream with
\* another threshold is running and has completed frames
C12_Witness ==
    /\ lpc = "idle"
    /\ m_running
    /\ lcall.op = "start"
    /\ lret = "true"
    /\ lcall.threshold = kMaxThreshold + 1
    /\ m_threshold # kMaxThreshold
    /\ Len(calls) > 0


\* C25: whenever a Running controller holds an estimator and neither a
\* start or stop call nor a setThreshold call is in progress, the threshold
\* of the estimator is the threshold the controller reports; and no
\* setThreshold call has gone through the pointer of an estimator already
\* discarded.
C25_ThresholdsAgree ==
    /\ (m_running /\ m_detector.live /\ lpc = "idle" /\ tpc = "idle")
          => m_detector.threshold = m_threshold
    /\ ~ubHit

\* C26: whenever no start or stop call is in progress, the controller is
\* Running exactly if it holds an open stream and a live estimator, and a
\* controller that is not Running holds neither a stream nor an estimator
\* (after a failed start, after stop, after onErrorAfterClose).
C26_RunningIffResources ==
    (lpc = "idle" /\ ~Crashed)
        => /\ m_running => (m_stream \in {"started", "halted"}
                              /\ m_detector.live)
           /\ ~m_running => (m_stream = "null" /\ ~m_detector.live)

\* C27: every callback delivered to a Running controller comes to its end;
\* when it returns Continue with the estimator still held, every sample
\* delivered to it has been copied into the accumulator (none remains and
\* the input pointer is at the end of the chunk); and a callback delivered
\* while not Running copies nothing, forwards nothing and returns Stop.
C27_CallbackTerminates ==
    /\ (apc \notin {"idle", "crashed"}) ~> (apc \in {"idle", "crashed"})
    /\ [][(apc \in {"loop", "check"} /\ apc' = "idle" /\ m_detector.live)
             => (framesRemaining = 0 /\ input = fed)]_vars
    /\ [][(apc = "idle" /\ apc' = "idle" /\ m_stream = "started"
             /\ ~m_running /\ m_stream' = "halted")
             => (/\ fed' = fed
                 /\ sink' = sink
                 /\ calls' = calls
                 /\ m_accumulator' = m_accumulator
                 /\ m_accumulatorSize' = m_accumulatorSize)]_vars

\* a callback whose chunk completed a frame, which it dispatched, is at the
\* loop test with no sample left
C27_Witness ==
    /\ apc = "loop"
    /\ framesRemaining = 0
    /\ m_running
    /\ m_detector.live
    /\ audioData < fed
    /\ Len(calls) > 0
    /\ calls[Len(calls)].position > audioData

(***************************************************************************)
(* Claims about YinPitchDetector                                           *)
(***************************************************************************)

\* C15: a processBuffer call with a null sample pointer, fewer samples than
\* the frame length, a maximum lag below 2 or a sample rate that is not
\* positive returns the default result (isValid false, numeric fields 0,
\* empty note name), stores it as the last result, and leaves the
\* difference and cumulative buffers as they were; in both implementations.
C15_MalformedInputDegrades ==
    [][ (/\ ycall'.made
         /\ \/ ycall'.samples.null
            \/ Len(ycall'.samples.data) < yin.m_bufferSize
            \/ yin.m_maxLag < 2
            \/ yin.m_sampleRate <= 0)
        => /\ ycall'.result = DefaultResult
           /\ yin'.m_lastResult = DefaultResult
           /\ yin'.m_difference = yin.m_difference
           /\ yin'.m_cumulative = yin.m_cumulative ]_vars

\* a frame one sample short has been refused by an estimator whose buffers
\* hold the values of an earlier frame and whose last result was valid
C15_Witness ==
    /\ ycall.made
    /\ ycall.reused
    /\ ~ycall.samples.null
    /\ Len(ycall.samples.data) = yin.m_bufferSize - 1
    /\ yin.m_lastResult = DefaultResult
    /\ yin.m_cumulative[2] # One

\* the result a newly constructed estimator of the same configuration and
\* threshold returns for the frame of the last call
FreshResult ==
    YinProcessBuffer(YinConstructed(yin.impl, yin.m_sampleRate,
                                    yin.m_bufferSize, yin.m_threshold),
                     ycall.samples).m_lastResult

\* C16: the result of processBuffer(F) is the result a newly constructed
\* estimator with the same threshold returns for F, whatever the estimator
\* has processed before; so two calls with the same frame give the same
\* result.
C16_HistoryFree ==
    ycall.made => ycall.result = FreshResult

\* a valid result returned by an estimator whose buffers held the values of
\* an earlier frame
C16_Witness ==
    /\ ycall.made
    /\ ycall.reused
    /\ ycall.result.isValid
    /\ ycall.result.frequency # << 48000, 2 >>

\* the result for the frame of the last call with another threshold
ResultAt(threshold) ==
    YinProcessBuffer([yin EXCEPT !.m_threshold = threshold],
                     ycall.samples).m_lastResult

ValidThresholds ==
    {kMinThreshold, 100, DefaultThreshold, 250, 500, 750, kMaxThreshold}

\* C17: a frame that processBuffer reports valid with one threshold of the
\* valid range is reported valid with every larger one.
C17_ThresholdMonotonic ==
    ycall.made
        => \A threshold \in ValidThresholds :
              /\ (threshold <= yin.m_threshold /\ ResultAt(threshold).isValid)
                    => ycall.result.isValid
              /\ (threshold >= yin.m_threshold /\ ycall.result.isValid)
                    => ResultAt(threshold).isValid

\* a frame with no lag below the smallest threshold, found valid by the
\* fallback search, has a lag below the largest threshold
C17_Witness ==
    /\ ycall.made
    /\ yin.m_threshold = kMinThreshold
    /\ ycall.result.isValid
    /\ \A tau \in 2..yin.m_maxLag :
          ~LessQ(yin.m_cumulative[tau], << kMinThreshold, 1000 >>)
    /\ \E tau \in 2..yin.m_maxLag :
          LessQ(yin.m_cumulative[tau], << kMaxThreshold, 1000 >>)
    /\ ResultAt(kMaxThreshold).isValid

\* the last call was given a frame of the configured length, all zero, by
\* an estimator that can process frames
SilentFrame ==
    /\ ycall.made
    /\ ~ycall.samples.null
    /\ Len(ycall.samples.data) = yin.m_bufferSize
    /\ \A i \in 1..Len(ycall.samples.data) : ycall.samples.data[i] = 0
    /\ yin.m_maxLag >= 2
    /\ yin.m_sampleRate > 0

\* C19: for a silent frame every d(tau) is 0 and every d'(tau) is 1.0, no
\* lag is below any valid threshold, the probability is 0 and the result
\* is not valid.
C19_SilenceIsNotValid ==
    SilentFrame
        => /\ \A tau \in 1..yin.m_maxLag :
                 /\ yin.m_difference[tau] = 0
                 /\ yin.m_cumulative[tau] = One
           /\ \A tau \in 2..yin.m_maxLag, threshold \in ValidThresholds :
                 ~LessQ(yin.m_cumulative[tau], << threshold, 1000 >>)
           /\ ~LessQ(Zero, ycall.result.probability)
           /\ ~LessQ(ycall.result.probability, Zero)
           /\ ~ycall.result.isValid

\* a silent frame processed after a frame that was not silent
C19_Witness ==
    /\ SilentFrame
    /\ ycall.reused
    /\ yin.m_maxLag >= 3

\* the last call went through to the search, on the frame it was given
Searched ==
    /\ ycall.made
    /\ ~ycall.samples.null
    /\ Len(ycall.samples.data) >= yin.m_bufferSize
    /\ yin.m_maxLag >= 2
    /\ yin.m_sampleRate > 0

\* the lags of [2, maxLag] whose d' is below the threshold
LagsBelow ==
    {tau \in 2..yin.m_maxLag :
        LessQ(yin.m_cumulative[tau], << yin.m_threshold, 1000 >>)}

\* d' falls strictly at every step from lag `from` to lag `to`, and not
\* at the step after it
LocalMinimumFrom(from, to) ==
    /\ \A tau \in from..(to - 1) :
          LessQ(yin.m_cumulative[tau + 1], yin.m_cumulative[tau])
    /\ to + 1 <= yin.m_maxLag
          => ~LessQ(yin.m_cumulative[to + 1], yin.m_cumulative[to])

\* two fractions stand for the same number
SameQ(a, b) ==
    ~LessQ(a, b) /\ ~LessQ(b, a)

\* C21: when some lag of [2, maxLag] has d' below the threshold, the lag
\* chosen is reached from the smallest such lag by advancing while the next
\* d' is strictly smaller; it is in [2, maxLag], its d' is below the
\* threshold, and the probability is 1 - d' at it.
C21_ThresholdSearch ==
    (Searched /\ LagsBelow # {})
        => /\ ycall.found.tau \in 2..yin.m_maxLag
           /\ \E first \in LagsBelow :
                 /\ \A tau \in LagsBelow : first <= tau
                 /\ first <= ycall.found.tau
                 /\ LocalMinimumFrom(first, ycall.found.tau)
           /\ ycall.found.tau \in LagsBelow
           /\ SameQ(ycall.found.probability,
                    SubQ(One, yin.m_cumulative[ycall.found.tau]))

\* the search went on from the first lag below the threshold to a later
\* lag with a smaller d'
C21_Witness ==
    /\ Searched
    /\ LagsBelow # {}
    /\ \E first \in LagsBelow :
          /\ first < ycall.found.tau
          /\ LessQ(Zero, yin.m_cumulative[ycall.found.tau])
    /\ ycall.result.isValid

C18_NoteNameWithOctave ==
    note.impl # "none"
        => note.noteName = << kNoteNames[(((note.midi % 12) + 12) % 12) + 1],
                              (note.midi \div 12) - 1 >>

=============================================================================
